---- MODULE Spec2Model ----
(***************************************************************************)
(* A model of the Gaussian log batch parser (parse_gaussian_logs.py) and   *)
(* of the single-file sample it was derived from (parse_logs_sample.py).   *)
(*                                                                         *)
(* Three specifications share this module:                                 *)
(*   SpecSer    the serializer to_serializable on Python values            *)
(*   SpecParse  the record extractor parse_single_log on library outcomes  *)
(*   Spec       a run of main(): discovery, the worker pool, the writers   *)
(*                                                                         *)
(* Python values are tagged records [t |-> type, v |-> payload].  Floats   *)
(* are fixed point, in thousandths; a division truncates.                  *)
(***************************************************************************)
EXTENDS Integers, Sequences, FiniteSets, TLC

VARIABLES
    \* ---- the serializer (SpecSer)
    sVal,           \* the value handed to to_serializable
    sOut,           \* to_serializable(sVal)
    sOut2,          \* to_serializable(sOut)
    sPc,            \* "build" | "once" | "twice"
    \* ---- the record extractor (SpecParse)
    pPath,          \* the path handed to parse_single_log
    pLib,           \* what ccread does on it
    pRes,           \* what parse_single_log does: a record, or an exception
    pPc,            \* "call" | "returned" | "raised"
    \* ---- a run of main() (Spec)
    pc,             \* where main is
    dirKind,        \* the input directory: "missing" | "file" | "dir"
    tree,           \* the files below the input directory
    pattern,        \* args.pattern
    separate,       \* args.separate
    outputArg,      \* args.output: "none" or an explicit destination
    files,          \* discover_files' result
    tasks,          \* the futures: index -> [st, res], st from queued to taken
    records,        \* aggregate mode: the list main appends to
    outDirCreated,  \* out_molecules_json exists
    outFiles,       \* separate mode: the files of out_molecules_json
    aggWrites,      \* aggregate mode: one [by, path, running, untaken] per write
    aggContent,     \* aggregate mode: what the destination holds
    logFiles,       \* parsing_info.log / parsing_errors.log are open
    printed         \* what main printed

serVars == <<sVal, sOut, sOut2, sPc>>
parseVars == <<pPath, pLib, pRes, pPc>>
runVars == <<pc, dirKind, tree, pattern, separate, outputArg, files, tasks,
             records, outDirCreated, outFiles, aggWrites, aggContent, logFiles,
             printed>>
runArgs == <<dirKind, tree, pattern, separate, outputArg>>
vars == <<serVars, parseVars, runVars>>

(***************************************************************************)
(* Python values                                                           *)
(***************************************************************************)
PyNone == [t |-> "none", v |-> <<>>]
PyBool(b) == [t |-> "bool", v |-> b]
PyInt(n) == [t |-> "int", v |-> n]
PyFloat(m) == [t |-> "float", v |-> m]
PyStr(s) == [t |-> "str", v |-> s]
PyDate(y, m, d) == [t |-> "date", v |-> <<y, m, d>>]
PyDateTime(y, m, d, hh, mm, ss) == [t |-> "datetime", v |-> <<y, m, d, hh, mm, ss>>]
PyTime(hh, mm, ss) == [t |-> "time", v |-> <<hh, mm, ss>>]
PyDelta(days, secs, millis) == [t |-> "timedelta", v |-> <<days, secs, millis>>]
PyPath(parts) == [t |-> "path", v |-> parts]
\* an object with a tolist method (a numpy array or scalar); v is what tolist returns
PyArray(data) == [t |-> "array", v |-> data]
\* a mapping: v is the sequence of <<key, value>> items, keys distinct
PyDict(items) == [t |-> "dict", v |-> items]
PyList(s) == [t |-> "list", v |-> s]
PyTuple(s) == [t |-> "tuple", v |-> s]
\* a set: v lists the distinct members in the set's iteration order
PySet(s) == [t |-> "set", v |-> s]
\* an object of no recognized type; v is what str() gives for it
PyObj(s) == [t |-> "object", v |-> s]

Digits == <<"0", "1", "2", "3", "4", "5", "6", "7", "8", "9">>
Pad2(n) == Digits[((n \div 10) % 10) + 1] \o Digits[(n % 10) + 1]
Pad4(n) == Pad2(n \div 100) \o Pad2(n % 100)

\* datetime.isoformat / date.isoformat / time.isoformat (microsecond = 0, naive)
isoformat(value) ==
    LET x == value.v IN
    IF value.t = "date" THEN Pad4(x[1]) \o "-" \o Pad2(x[2]) \o "-" \o Pad2(x[3])
    ELSE IF value.t = "datetime"
    THEN Pad4(x[1]) \o "-" \o Pad2(x[2]) \o "-" \o Pad2(x[3]) \o "T"
             \o Pad2(x[4]) \o ":" \o Pad2(x[5]) \o ":" \o Pad2(x[6])
    ELSE Pad2(x[1]) \o ":" \o Pad2(x[2]) \o ":" \o Pad2(x[3])

\* timedelta.total_seconds(), in thousandths
total_seconds(value) ==
    (value.v[1] * 86400 + value.v[2]) * 1000 + value.v[3]

RECURSIVE JoinWith(_, _)
JoinWith(parts, sep) ==
    IF parts = <<>> THEN ""
    ELSE IF Len(parts) = 1 THEN parts[1]
    ELSE parts[1] \o sep \o JoinWith(Tail(parts), sep)

\* str(Path): the parts joined by the separator
path_str(value) == JoinWith(value.v, "/")

hasattr_tolist(value) == value.t = "array"

(***************************************************************************)
(* to_serializable, branch by branch in the order of the source            *)
(***************************************************************************)
\* to_serializable with tuples and sets copied into a list without descending
\* into their members
RECURSIVE to_serializable_shallow(_)
to_serializable_shallow(value) ==
    IF value.t = "none" THEN PyNone
    ELSE IF value.t \in {"bool", "int", "float", "str"} THEN value
    ELSE IF value.t \in {"datetime", "date"} THEN PyStr(isoformat(value))
    ELSE IF value.t = "time" THEN PyStr(isoformat(value))
    ELSE IF value.t = "timedelta" THEN PyFloat(total_seconds(value))
    ELSE IF value.t = "path" THEN PyStr(path_str(value))
    ELSE IF hasattr_tolist(value) THEN to_serializable_shallow(value.v)
    ELSE IF value.t = "dict"
    THEN PyDict([i \in DOMAIN value.v |->
                    <<value.v[i][1], to_serializable_shallow(value.v[i][2])>>])
    ELSE IF value.t = "list"
    THEN PyList([i \in DOMAIN value.v |-> to_serializable_shallow(value.v[i])])
    ELSE IF value.t \in {"tuple", "set"} THEN PyList(value.v)
    ELSE PyStr(value.v)

RECURSIVE to_serializable(_)
to_serializable(value) ==
    IF value.t = "none" THEN PyNone
    ELSE IF value.t \in {"bool", "int", "float", "str"} THEN value
    ELSE IF value.t \in {"datetime", "date"} THEN PyStr(isoformat(value))
    ELSE IF value.t = "time" THEN PyStr(isoformat(value))
    ELSE IF value.t = "timedelta" THEN PyFloat(total_seconds(value))
    ELSE IF value.t = "path" THEN PyStr(path_str(value))
    ELSE IF hasattr_tolist(value) THEN to_serializable(value.v)
    ELSE IF value.t = "dict"
    THEN PyDict([i \in DOMAIN value.v |->
                    <<value.v[i][1], to_serializable(value.v[i][2])>>])
    ELSE IF value.t \in {"list", "tuple", "set"}
    THEN PyList([i \in DOMAIN value.v |-> to_serializable(value.v[i])])
    \* numpy scalars expose tolist and are taken by the branch above
    ELSE PyStr(value.v)

\* built only from JSON primitives: null, boolean, number, string, an
\* object with string keys, an array
RECURSIVE IsJSON(_)
IsJSON(value) ==
    IF value.t \in {"none", "bool", "int", "float", "str"} THEN TRUE
    ELSE IF value.t = "list" THEN \A i \in DOMAIN value.v : IsJSON(value.v[i])
    ELSE IF value.t = "dict"
    THEN \A i \in DOMAIN value.v :
            value.v[i][1].t = "str" /\ IsJSON(value.v[i][2])
    ELSE FALSE

(***************************************************************************)
(* SpecSer: values are built up to MaxSize nodes, then serialized twice    *)
(***************************************************************************)
MaxSize == 4

RECURSIVE Size(_)
RECURSIVE SizeSum(_, _)
SizeSum(s, i) == IF i > Len(s) THEN 0 ELSE Size(s[i]) + SizeSum(s, i + 1)
Size(value) ==
    IF value.t \in {"list", "tuple", "set"} THEN 1 + SizeSum(value.v, 1)
    ELSE IF value.t = "dict"
    THEN 1 + SizeSum([i \in DOMAIN value.v |-> value.v[i][2]], 1)
    ELSE IF value.t = "array" THEN Size(value.v)
    ELSE 1

\* the leaves: one value per branch of to_serializable
Atoms ==
    { PyNone, PyBool(TRUE), PyInt(1), PyFloat(1500), PyStr("a"),
      PyDate(2024, 1, 31), PyDateTime(2024, 1, 31, 23, 59, 7), PyTime(9, 5, 0),
      PyDelta(1, 30, 500), PyPath(<<"out", "a.log">>), PyObj("<Opaque>"),
      PyArray(PyFloat(2500)), PyArray(PyList(<<PyInt(1), PyInt(2)>>)) }

\* what is appended to a container that exists already
MoreAtoms == { PyInt(2), PyDelta(0, 1, 0), PyObj("<Other>"), PyStr("b") }

\* mapping keys: strings, and hashable values that are no strings
Keys == { PyStr("k"), PyStr("j"), PyTuple(<<PyInt(1), PyInt(2)>>) }

RECURSIVE Hashable(_)
Hashable(value) ==
    IF value.t \in {"list", "dict", "set", "array"} THEN FALSE
    ELSE IF value.t = "tuple" THEN \A i \in DOMAIN value.v : Hashable(value.v[i])
    ELSE TRUE

SerInit ==
    /\ sVal \in Atoms
    /\ sOut = PyNone
    /\ sOut2 = PyNone
    /\ sPc = "build"

\* the caller nests the value in a list, a tuple or a set
SerWrap(kind) ==
    /\ sPc = "build"
    /\ Size(sVal) < MaxSize
    /\ kind = "set" => Hashable(sVal)
    /\ sVal' = [t |-> kind, v |-> <<sVal>>]
    /\ UNCHANGED <<sOut, sOut2, sPc, parseVars, runVars>>

\* the caller nests the value in a mapping
SerWrapDict(k) ==
    /\ sPc = "build"
    /\ Size(sVal) < MaxSize
    /\ sVal' = PyDict(<< <<k, sVal>> >>)
    /\ UNCHANGED <<sOut, sOut2, sPc, parseVars, runVars>>

\* the caller adds a member to a list, a tuple or a set
SerAppend(a) ==
    /\ sPc = "build"
    /\ sVal.t \in {"list", "tuple", "set"}
    /\ Size(sVal) < MaxSize
    /\ sVal.t = "set" => \A i \in DOMAIN sVal.v : sVal.v[i] # a
    /\ sVal' = [sVal EXCEPT !.v = Append(@, a)]
    /\ UNCHANGED <<sOut, sOut2, sPc, parseVars, runVars>>

\* the caller adds an item under a new key to a mapping
SerPut(k, a) ==
    /\ sPc = "build"
    /\ sVal.t = "dict"
    /\ Size(sVal) < MaxSize
    /\ \A i \in DOMAIN sVal.v : sVal.v[i][1] # k
    /\ sVal' = [sVal EXCEPT !.v = Append(@, <<k, a>>)]
    /\ UNCHANGED <<sOut, sOut2, sPc, parseVars, runVars>>

\* normalized = to_serializable(value)
SerCall ==
    /\ sPc = "build"
    /\ sOut' = to_serializable(sVal)
    /\ sPc' = "once"
    /\ UNCHANGED <<sVal, sOut2, parseVars, runVars>>

\* the result is serialized again
SerCallAgain ==
    /\ sPc = "once"
    /\ sOut2' = to_serializable(sOut)
    /\ sPc' = "twice"
    /\ UNCHANGED <<sVal, sOut, parseVars, runVars>>

SerNext ==
    \/ \E kind \in {"list", "tuple", "set"} : SerWrap(kind)
    \/ \E k \in Keys : SerWrapDict(k)
    \/ \E a \in MoreAtoms : SerAppend(a)
    \/ \E k \in Keys, a \in MoreAtoms : SerPut(k, a)
    \/ SerCall
    \/ SerCallAgain

\* C7: to_serializable is idempotent, and it returns a value that is built
\* only from JSON primitives structurally unchanged.
C7_Idempotent ==
    /\ sPc = "twice" => sOut2 = sOut
    /\ (sPc # "build" /\ IsJSON(sVal)) => sOut = sVal

\* a nested value holding a tuple of a duration has been serialized twice
C7_Witness ==
    /\ sPc = "twice"
    /\ sVal.t = "dict"
    /\ sVal.v[1][2].t = "tuple"
    /\ sVal.v[1][2].v[1].t = "timedelta"
    /\ sOut # sVal

\* C8: to_serializable returns a value built only from JSON primitives at
\* every nesting level, mappings with arbitrary keys included.
C8_OnlyJSON == sPc # "build" => IsJSON(sOut)

(***************************************************************************)
(* Paths.  A path is [dir, segs, isdir]: the directories below the input   *)
(* directory, and the final component split at its dots.                   *)
(***************************************************************************)
\* Path.name
PathName(path) == JoinWith(path.segs, ".")

\* Path.stem: the name up to its last dot, unless that dot leads or ends it
PathStem(path) ==
    LET n == Len(path.segs)
        front == JoinWith(SubSeq(path.segs, 1, n - 1), ".")
    IN  IF n >= 2 /\ front # "" /\ path.segs[n] # "" THEN front ELSE PathName(path)

(***************************************************************************)
(* What ccread does on a file: [kind, msg, data].  kind "raise": it raised *)
(* an exception whose str() is msg; "none": it returned None; "data": it   *)
(* returned an object whose attributes are data.  An attribute the object  *)
(* does not have is Absent.                                                *)
(***************************************************************************)
Absent == [t |-> "absent", v |-> <<>>]

AttrNames ==
    { "scfenergies", "moments", "mulliken_charges", "atomcoords", "metadata",
      "charge", "mult", "nbasis", "vibfreqs", "vibirs", "vibfconsts",
      "vibredmass", "zpve", "atomnos" }

LibRaise(msg) == [kind |-> "raise", msg |-> msg, data |-> <<>>]
LibNone == [kind |-> "none", msg |-> "", data |-> <<>>]
LibData(d) == [kind |-> "data", msg |-> "", data |-> d]

EV_PER_HARTREE_MILLI == 27211

safe_get(obj, name) == IF obj[name] = Absent THEN PyNone ELSE obj[name]

to_python(value) == IF hasattr_tolist(value) THEN value.v ELSE value

\* the members met when iterating a list or an array
Elems(value) == IF value.t = "array" THEN value.v.v ELSE value.v

\* float(x), int(x) on a number
to_float(x) == IF x.t = "int" THEN PyFloat(x.v * 1000) ELSE PyFloat(x.v)
to_int(x) == IF x.t = "float" THEN PyInt(x.v \div 1000) ELSE PyInt(x.v)

\* float(e) / EV_PER_HARTREE
ToHartree(e) == PyFloat((to_float(e).v * 1000) \div EV_PER_HARTREE_MILLI)

Abs(n) == IF n < 0 THEN -n ELSE n
Isqrt(n, hi) == CHOOSE r \in 0..hi : r * r <= n /\ (r + 1) * (r + 1) > n

\* bool(x) for None and for a list
Truthy(x) == x # PyNone /\ Len(x.v) > 0

ErrorRecord(path, msg) ==
    PyDict(<< <<PyStr("file"), PyStr(PathName(path))>>,
              <<PyStr("error"), PyStr(msg)>> >>)

Returned(rec) == [kind |-> "record", val |-> rec]
Raised(exc) == [kind |-> "raise", val |-> PyStr(exc)]

scfenergies_au_of(data) ==
    LET scfenergies == safe_get(data, "scfenergies") IN
    IF scfenergies # PyNone
    THEN PyList([i \in DOMAIN Elems(scfenergies) |-> ToHartree(Elems(scfenergies)[i])])
    ELSE PyNone

\* scfenergies_au[-1] if scfenergies_au else None, taking the first element
final_scf_energy_first(scfenergies_au) ==
    IF Truthy(scfenergies_au) THEN scfenergies_au.v[1] ELSE PyNone

\* scfenergies_au[-1] if scfenergies_au else None
final_scf_energy(scfenergies_au) ==
    IF Truthy(scfenergies_au) THEN scfenergies_au.v[Len(scfenergies_au.v)] ELSE PyNone

dipole_moment_of(data) ==
    LET dipole_vectors == safe_get(data, "moments")
        dipole_vector ==
            IF Truthy(dipole_vectors) /\ Len(dipole_vectors.v) > 1
            THEN dipole_vectors.v[2] ELSE PyNone
        c == Elems(dipole_vector)
        sq == c[1].v * c[1].v + c[2].v * c[2].v + c[3].v * c[3].v
    IN  IF dipole_vector # PyNone
        THEN PyDict(<< <<PyStr("x"), to_float(c[1])>>,
                       <<PyStr("y"), to_float(c[2])>>,
                       <<PyStr("z"), to_float(c[3])>>,
                       <<PyStr("total"),
                         PyFloat(Isqrt(sq, Abs(c[1].v) + Abs(c[2].v) + Abs(c[3].v)))>> >>)
        ELSE PyNone

\* x[-1] on a sequence that may be empty
IndexLastRaises(x) == x # PyNone /\ Len(Elems(x)) = 0
LastOf(x) == Elems(x)[Len(Elems(x))]

OptFloat(x) == IF x # PyNone THEN to_float(x) ELSE PyNone
OptInt(x) == IF x # PyNone THEN to_int(x) ELSE PyNone

\* the four arrays of `vibrations`: passed through to_python by the batch
\* tool, left as the library gave them by the single-file tool
Vibration(data, name, convert) ==
    IF convert THEN to_python(safe_get(data, name)) ELSE safe_get(data, name)

\* the extracted fields, in the order of the source
Fields(data, convert) ==
    LET scfenergies_au == scfenergies_au_of(data)
        mulliken == safe_get(data, "mulliken_charges")
        atomcoords == safe_get(data, "atomcoords")
        metadata == safe_get(data, "metadata")
    IN  << <<PyStr("metadata"), IF Truthy(metadata) THEN metadata ELSE PyDict(<<>>)>>,
           <<PyStr("charge"), OptFloat(safe_get(data, "charge"))>>,
           <<PyStr("multiplicity"), OptInt(safe_get(data, "mult"))>>,
           <<PyStr("nbasis"), OptInt(safe_get(data, "nbasis"))>>,
           <<PyStr("natoms"),
             IF atomcoords # PyNone THEN PyInt(Len(LastOf(atomcoords).v)) ELSE PyNone>>,
           <<PyStr("scf_energies_au"), scfenergies_au>>,
           <<PyStr("final_scf_energy_au"), final_scf_energy(scfenergies_au)>>,
           <<PyStr("vibrations"),
             PyDict(<< <<PyStr("frequencies_cm-1"), Vibration(data, "vibfreqs", convert)>>,
                       <<PyStr("ir_intensities_km/mol"), Vibration(data, "vibirs", convert)>>,
                       <<PyStr("force_constants_mDyneA"), Vibration(data, "vibfconsts", convert)>>,
                       <<PyStr("reduced_masses_amu"), Vibration(data, "vibredmass", convert)>> >>)>>,
           <<PyStr("dipole_moment_debye"), dipole_moment_of(data)>>,
           <<PyStr("mulliken_charges"),
             IF mulliken # PyNone
             THEN PyList([i \in DOMAIN LastOf(mulliken).v |-> to_float(LastOf(mulliken).v[i])])
             ELSE PyNone>>,
           <<PyStr("zpe_au"), OptFloat(safe_get(data, "zpve"))>>,
           <<PyStr("atom_numbers"), to_python(safe_get(data, "atomnos"))>>,
           <<PyStr("final_geometry_angstrom"),
             IF atomcoords # PyNone THEN LastOf(atomcoords) ELSE PyNone>> >>

\* the fields record.update adds
DomainFields(data) == Fields(data, TRUE)

\* parse_single_log that goes on to the extraction when the library
\* returned no data
parse_single_log_keeps_error(path, lib) ==
    IF lib.kind = "raise" THEN Returned(ErrorRecord(path, lib.msg))
    ELSE IF lib.kind = "none"
    THEN Returned(PyDict(ErrorRecord(path, "cclib failed to parse the file.").v
                         \o DomainFields([a \in AttrNames |-> Absent])))
    ELSE IF IndexLastRaises(safe_get(lib.data, "atomcoords"))
            \/ IndexLastRaises(safe_get(lib.data, "mulliken_charges"))
    THEN Raised("IndexError")
    ELSE Returned(PyDict(<< <<PyStr("file"), PyStr(PathName(path))>> >>
                         \o DomainFields(lib.data)))

\* parse_single_log: the record it returns, or the exception that leaves it
parse_single_log(path, lib) ==
    IF lib.kind = "raise" THEN Returned(ErrorRecord(path, lib.msg))
    ELSE IF lib.kind = "none"
    THEN Returned(ErrorRecord(path, "cclib failed to parse the file."))
    ELSE IF IndexLastRaises(safe_get(lib.data, "atomcoords"))
            \/ IndexLastRaises(safe_get(lib.data, "mulliken_charges"))
    THEN Raised("IndexError")
    ELSE Returned(PyDict(<< <<PyStr("file"), PyStr(PathName(path))>> >>
                         \o DomainFields(lib.data)))

\* record[key], and key in record
HasKey(rec, key) == \E i \in DOMAIN rec.v : rec.v[i][1] = PyStr(key)
Get(rec, key) == rec.v[CHOOSE i \in DOMAIN rec.v : rec.v[i][1] = PyStr(key)][2]

\* main() of parse_logs_sample.py up to the dictionary it dumps: ccread's
\* exception is not caught, and no data is a RuntimeError
sample_main(path, lib) ==
    IF lib.kind = "raise" THEN Raised(lib.msg)
    ELSE IF lib.kind = "none" THEN Raised("RuntimeError")
    ELSE IF IndexLastRaises(safe_get(lib.data, "atomcoords"))
            \/ IndexLastRaises(safe_get(lib.data, "mulliken_charges"))
    THEN Raised("IndexError")
    ELSE Returned(PyDict(<< <<PyStr("file"), PyStr(PathName(path))>> >>
                         \o Fields(lib.data, FALSE)))

(***************************************************************************)
(* SpecParse: parse_single_log on every outcome of the library             *)
(***************************************************************************)
MaxEnergies == 2
MaxAttrs == 3

\* raw SCF energies in eV (thousandths): 27.211, 54.422, -13.606, ...
EnergyValues == <<27211, 54422, -13606, 1000>>
EnergySeq(n) == [i \in 1..n |-> PyFloat(EnergyValues[((i - 1) % Len(EnergyValues)) + 1])]

Vec(x, y, z) == PyArray(PyList(<<PyFloat(x), PyFloat(y), PyFloat(z)>>))
Point(x, y, z) == PyList(<<PyFloat(x), PyFloat(y), PyFloat(z)>>)
Frame1 == PyList(<<Point(0, 0, 0), Point(0, 0, 1100)>>)
Frame2 == PyList(<<Point(0, 0, 10), Point(0, 0, 1090)>>)
FloatArray(s) == PyArray(PyList([i \in DOMAIN s |-> PyFloat(s[i])]))
IntArray(s) == PyArray(PyList([i \in DOMAIN s |-> PyInt(s[i])]))

\* the values an attribute may hold
AttrValues(name) ==
    CASE name = "scfenergies" -> {PyArray(PyList(EnergySeq(n))) : n \in 0..MaxEnergies}
      [] name = "moments" ->
            { PyList(<<>>), PyList(<<Vec(0, 0, 0)>>),
              PyList(<<Vec(0, 0, 0), Vec(3, 4, 0)>>) }
      [] name = "mulliken_charges" ->
            { PyList(<<>>), PyList(<<PyList(<<PyFloat(-300), PyFloat(300)>>)>>) }
      [] name = "atomcoords" ->
            { PyArray(PyList(<<>>)), PyArray(PyList(<<Frame1>>)),
              PyArray(PyList(<<Frame1, Frame2>>)) }
      [] name = "metadata" ->
            { PyDict(<<>>), PyDict(<< <<PyStr("package"), PyStr("Gaussian")>> >>) }
      [] name = "charge" -> { PyInt(0) }
      [] name = "mult" -> { PyInt(1) }
      [] name = "nbasis" -> { PyInt(7) }
      [] name = "zpve" -> { PyFloat(21) }
      [] name = "atomnos" -> { IntArray(<<1, 9>>) }
      [] OTHER -> { FloatArray(<<4138500>>) }

\* an object with no attribute, and the object of a complete calculation
NoAttrs == [a \in AttrNames |-> Absent]
FullAttrs ==
    [a \in AttrNames |->
        CASE a = "scfenergies" -> PyArray(PyList(EnergySeq(MaxEnergies)))
          [] a = "moments" -> PyList(<<Vec(0, 0, 0), Vec(3, 4, 0)>>)
          [] a = "mulliken_charges" -> PyList(<<PyList(<<PyFloat(-300), PyFloat(300)>>)>>)
          [] a = "atomcoords" -> PyArray(PyList(<<Frame1, Frame2>>))
          [] a = "metadata" -> PyDict(<< <<PyStr("package"), PyStr("Gaussian")>> >>)
          [] OTHER -> CHOOSE x \in AttrValues(a) : TRUE]

NumPresent(d) == Cardinality({a \in AttrNames : d[a] # Absent})

ParsePaths ==
    { [dir |-> <<>>, segs |-> <<"mol", "log">>, isdir |-> FALSE],
      [dir |-> <<"s1">>, segs |-> <<"mol", "1", "log">>, isdir |-> FALSE] }

NoResult == [kind |-> "none", val |-> PyNone]

ParseInit ==
    /\ pPath \in ParsePaths
    /\ pLib \in { LibRaise("Unable to determine the type of logfile"), LibNone,
                  LibData(NoAttrs), LibData(FullAttrs) }
    /\ pRes = NoResult
    /\ pPc = "call"

\* the log holds a section more: the object gets the attribute
LibSetAttr(name, value) ==
    /\ pPc = "call"
    /\ pLib.kind = "data"
    /\ pLib.data[name] = Absent
    /\ NumPresent(pLib.data) < MaxAttrs
    /\ pLib' = [pLib EXCEPT !.data[name] = value]
    /\ UNCHANGED <<pPath, pRes, pPc, serVars, runVars>>

\* the log lacks a section: the object does not get the attribute
LibDropAttr(name) ==
    /\ pPc = "call"
    /\ pLib.kind = "data"
    /\ pLib.data[name] # Absent
    /\ Cardinality(AttrNames) - NumPresent(pLib.data) < MaxAttrs
    /\ pLib' = [pLib EXCEPT !.data[name] = Absent]
    /\ UNCHANGED <<pPath, pRes, pPc, serVars, runVars>>

\* record = parse_single_log(path)
ParseCall ==
    /\ pPc = "call"
    /\ pRes' = parse_single_log(pPath, pLib)
    /\ pPc' = IF pRes'.kind = "record" THEN "returned" ELSE "raised"
    /\ UNCHANGED <<pPath, pLib, serVars, runVars>>

\* the single-file tool on the same file
SampleCall ==
    /\ pPc = "call"
    /\ pRes' = sample_main(pPath, pLib)
    /\ pPc' = IF pRes'.kind = "record" THEN "sample_returned" ELSE "sample_raised"
    /\ UNCHANGED <<pPath, pLib, serVars, runVars>>

ParseNext ==
    \/ \E name \in AttrNames : \E value \in AttrValues(name) : LibSetAttr(name, value)
    \/ \E name \in AttrNames : LibDropAttr(name)
    \/ ParseCall
    \/ SampleCall

DomainKeys ==
    { "metadata", "charge", "multiplicity", "nbasis", "natoms", "scf_energies_au",
      "final_scf_energy_au", "vibrations", "dipole_moment_debye",
      "mulliken_charges", "zpe_au", "atom_numbers", "final_geometry_angstrom" }

KeysOf(rec) == {rec.v[i][1].v : i \in DOMAIN rec.v}

\* C2: a record returned by parse_single_log holds `file` and either
\* `error` alone or all the domain fields; `error` is there exactly when
\* the library raised or returned no data.
C2_ErrorXorFields ==
    pPc = "returned" =>
        /\ Len(pRes.val.v) = Cardinality(KeysOf(pRes.val))
        /\ HasKey(pRes.val, "file")
        /\ HasKey(pRes.val, "error") <=> pLib.kind \in {"raise", "none"}
        /\ IF HasKey(pRes.val, "error")
           THEN KeysOf(pRes.val) = {"file", "error"}
           ELSE KeysOf(pRes.val) = {"file"} \cup DomainKeys

\* the library returned no data and the record holds the error alone
C2_Witness ==
    /\ pPc = "returned"
    /\ pLib.kind = "none"
    /\ KeysOf(pRes.val) = {"file", "error"}

\* C6: final_scf_energy_au is the last element of scf_energies_au, or null
\* when that is null or empty; scf_energies_au has the raw sequence's
\* length and order, each element the raw value divided by the constant.
C6_FinalEnergy ==
    pPc \in {"returned", "sample_returned"} /\ pLib.kind = "data" =>
        LET au == Get(pRes.val, "scf_energies_au")
            final == Get(pRes.val, "final_scf_energy_au")
            raw == pLib.data.scfenergies
        IN  /\ (au # PyNone /\ Len(au.v) >= 1) => final = au.v[Len(au.v)]
            /\ (au = PyNone \/ Len(au.v) = 0) => final = PyNone
            /\ au = PyNone <=> raw = Absent
            /\ au # PyNone =>
                 /\ Len(au.v) = Len(raw.v.v)
                 /\ \A i \in 1..Len(au.v) :
                       /\ au.v[i].t = "float"
                       /\ au.v[i].v * EV_PER_HARTREE_MILLI <= raw.v.v[i].v * 1000
                       /\ raw.v.v[i].v * 1000 < (au.v[i].v + 1) * EV_PER_HARTREE_MILLI

\* two energies were parsed and the final one is the second
C6_Witness ==
    /\ pPc = "returned"
    /\ pLib.kind = "data"
    /\ pLib.data.scfenergies = PyArray(PyList(EnergySeq(2)))
    /\ Get(pRes.val, "final_scf_energy_au") = PyFloat(2000)
    /\ Get(pRes.val, "scf_energies_au") = PyList(<<PyFloat(1000), PyFloat(2000)>>)

SerIdle == sVal = PyNone /\ sOut = PyNone /\ sOut2 = PyNone /\ sPc = "idle"
ParseIdle ==
    /\ pPath = [dir |-> <<>>, segs |-> <<>>, isdir |-> FALSE]
    /\ pLib = LibNone
    /\ pRes = NoResult
    /\ pPc = "idle"

(***************************************************************************)
(* Spec: a run of main()                                                   *)
(***************************************************************************)
MaxFiles == 4

\* what may lie below the input directory, in the order sorted() gives paths
Universe ==
    << [dir |-> <<>>, segs |-> <<"a", "log">>, isdir |-> FALSE],
       [dir |-> <<>>, segs |-> <<"a", "txt">>, isdir |-> FALSE],
       [dir |-> <<>>, segs |-> <<"b", "log">>, isdir |-> FALSE],
       [dir |-> <<>>, segs |-> <<"s1">>, isdir |-> TRUE],
       [dir |-> <<"s1">>, segs |-> <<"a", "log">>, isdir |-> FALSE] >>

\* a file lies in a directory that exists
Trees ==
    { t \in SUBSET (1..Len(Universe)) :
        /\ Cardinality(t) <= MaxFiles
        /\ \A i \in t : Universe[i].dir # <<>> =>
              \E j \in t : Universe[j].isdir /\ Universe[j].segs = Universe[i].dir }

Patterns == {"*.log", "*", "**/*.log"}

\* Path.glob: "*" takes every entry of the directory itself, "*.log" those
\* whose name ends in .log, "**/*.log" those at any depth
EndsInLog(path) == Len(path.segs) >= 2 /\ path.segs[Len(path.segs)] = "log"
Matches(pat, path) ==
    CASE pat = "*" -> path.dir = <<>>
      [] pat = "*.log" -> path.dir = <<>> /\ EndsInLog(path)
      [] OTHER -> EndsInLog(path)

RECURSIVE SortedMatches(_, _, _)
SortedMatches(t, pat, i) ==
    IF i > Len(Universe) THEN <<>>
    ELSE (IF i \in t /\ Matches(pat, Universe[i]) THEN <<Universe[i]>> ELSE <<>>)
             \o SortedMatches(t, pat, i + 1)

\* discover_files: the sorted matches, or the exception it raises
discover_files(kind, t, pat) ==
    IF kind = "missing" THEN [kind |-> "raise", val |-> <<"FileNotFoundError">>]
    ELSE IF kind = "file" THEN [kind |-> "raise", val |-> <<"NotADirectoryError">>]
    ELSE [kind |-> "ok", val |-> SortedMatches(t, pat, 1)]

\* the parse of a log that holds no geometry frame
NoFrameHandle == [NoAttrs EXCEPT !["atomcoords"] = PyArray(PyList(<<>>))]

\* what ccread may do on a matched path
RunOutcomes(path) ==
    {LibRaise("Unable to determine the type of logfile"), LibNone}
        \cup (IF path.isdir THEN {} ELSE {LibData(FullAttrs), LibData(NoFrameHandle)})

\* {key: to_serializable(value) for key, value in record.items()}
NormalizeRecord(rec) ==
    PyDict([i \in DOMAIN rec.v |-> <<rec.v[i][1], to_serializable(rec.v[i][2])>>])

\* normalize_records
normalize_records(recs) == [i \in DOMAIN recs |-> NormalizeRecord(recs[i])]

\* f"{path.stem}.cclib.json"
OutputName(path) == PathStem(path) \o ".cclib.json"

NoTask == [st |-> "queued", res |-> NoResult]
Count(st) == Cardinality({i \in DOMAIN tasks : tasks[i].st = st})

RunInit ==
    /\ pc = "start"
    /\ dirKind \in {"missing", "file", "dir"}
    /\ tree \in (IF dirKind = "dir" THEN Trees ELSE {{}})
    /\ pattern \in Patterns
    /\ separate \in BOOLEAN
    /\ outputArg \in {"none", "explicit"}
    /\ files = <<>>
    /\ tasks = <<>>
    /\ records = <<>>
    /\ outDirCreated = FALSE
    /\ outFiles = <<>>
    /\ aggWrites = <<>>
    /\ aggContent = PyNone
    /\ logFiles = FALSE
    /\ printed = <<>>

RunIdle ==
    /\ pc = "idle"
    /\ dirKind = "missing"
    /\ tree = {}
    /\ pattern = "*.log"
    /\ separate = FALSE
    /\ outputArg = "none"
    /\ files = <<>>
    /\ tasks = <<>>
    /\ records = <<>>
    /\ outDirCreated = FALSE
    /\ outFiles = <<>>
    /\ aggWrites = <<>>
    /\ aggContent = PyNone
    /\ logFiles = FALSE
    /\ printed = <<>>

\* main, up to the first log line: the two log files are opened
SetupLogging ==
    /\ pc = "start"
    /\ logFiles' = TRUE
    /\ pc' = "discover"
    /\ UNCHANGED <<runArgs, serVars, parseVars, files, tasks, records,
                   outDirCreated, outFiles, aggWrites, aggContent, printed>>

\* main with the output directory made before the match list is looked at
DiscoverMkdirFirst ==
    /\ pc = "discover"
    /\ LET found == discover_files(dirKind, tree, pattern) IN
        IF found.kind = "raise"
        THEN /\ pc' = "failed"
             /\ UNCHANGED <<files, printed, outDirCreated>>
        ELSE /\ outDirCreated' = TRUE
             /\ files' = found.val
             /\ IF found.val = <<>>
                THEN pc' = "done" /\ printed' = Append(printed, "No files matched")
                ELSE pc' = "dispatch" /\ UNCHANGED printed
    /\ UNCHANGED <<runArgs, serVars, parseVars, tasks, records, outFiles,
                   aggWrites, aggContent, logFiles>>

\* files = discover_files(...); if not files: print and return
Discover ==
    /\ pc = "discover"
    /\ LET found == discover_files(dirKind, tree, pattern) IN
        IF found.kind = "raise"
        THEN /\ pc' = "failed"
             /\ UNCHANGED <<files, printed>>
        ELSE /\ files' = found.val
             /\ IF found.val = <<>>
                THEN pc' = "done" /\ printed' = Append(printed, "No files matched")
                ELSE pc' = "dispatch" /\ UNCHANGED printed
    /\ UNCHANGED <<runArgs, serVars, parseVars, tasks, records,
                   outDirCreated, outFiles, aggWrites, aggContent, logFiles>>

\* determine_output_path: the explicit destination, or the default one
\* after making its directory
determine_output_path(output_arg) ==
    IF output_arg # "none"
    THEN [path |-> output_arg, mkdir |-> FALSE]
    ELSE [path |-> "out_molecules_json/out_molecules.json", mkdir |-> TRUE]

\* the output location is resolved (the mkdir of the separate branch, or
\* determine_output_path) and every file is submitted to the pool
Dispatch ==
    /\ pc = "dispatch"
    /\ outDirCreated' = IF separate THEN TRUE
                        ELSE outDirCreated \/ determine_output_path(outputArg).mkdir
    /\ tasks' = [i \in 1..Len(files) |-> NoTask]
    /\ pc' = "collect"
    /\ UNCHANGED <<runArgs, serVars, parseVars, files, records, outFiles,
                   aggWrites, aggContent, logFiles, printed>>

\* a pool thread takes a submitted task
WorkerStart(i) ==
    /\ pc \in {"collect", "unwind"}
    /\ tasks[i].st = "queued"
    /\ tasks' = [tasks EXCEPT ![i].st = "running"]
    /\ UNCHANGED <<pc, runArgs, serVars, parseVars, files, records,
                   outDirCreated, outFiles, aggWrites, aggContent, logFiles,
                   printed>>

\* parse_single_log ends in the thread: the future holds its record or its exception
WorkerFinish(i, lib) ==
    /\ pc \in {"collect", "unwind"}
    /\ tasks[i].st = "running"
    /\ tasks' = [tasks EXCEPT ![i] = [st |-> "done", res |-> parse_single_log(files[i], lib)]]
    /\ UNCHANGED <<pc, runArgs, serVars, parseVars, files, records,
                   outDirCreated, outFiles, aggWrites, aggContent, logFiles,
                   printed>>

\* output_file.write_text(json.dumps(normalized, ...)): the file holds the
\* JSON text of the value, the model the value
WriteFile(name, content) ==
    [n \in DOMAIN outFiles \cup {name} |-> IF n = name THEN content ELSE outFiles[n]]

\* the loop body with the output named after the next path in discovery
\* order instead of the path the future was submitted for
CollectByPosition(i) ==
    /\ pc = "collect"
    /\ tasks[i].st = "done"
    /\ tasks' = [tasks EXCEPT ![i].st = "taken"]
    /\ IF tasks[i].res.kind = "raise"
       THEN pc' = "unwind" /\ UNCHANGED <<records, outFiles>>
       ELSE IF separate
       THEN /\ outFiles' = WriteFile(OutputName(files[Count("taken") + 1]),
                                     NormalizeRecord(tasks[i].res.val))
            /\ UNCHANGED <<pc, records>>
       ELSE /\ records' = Append(records, tasks[i].res.val)
            /\ UNCHANGED <<pc, outFiles>>
    /\ UNCHANGED <<runArgs, serVars, parseVars, files, outDirCreated,
                   aggWrites, aggContent, logFiles, printed>>

\* as_completed yields a finished future and main takes its result: the
\* exception leaves the loop, or the record is written (separate) or kept
Collect(i) ==
    /\ pc = "collect"
    /\ tasks[i].st = "done"
    /\ tasks' = [tasks EXCEPT ![i].st = "taken"]
    /\ IF tasks[i].res.kind = "raise"
       THEN pc' = "unwind" /\ UNCHANGED <<records, outFiles>>
       ELSE IF separate
       THEN /\ outFiles' = WriteFile(OutputName(files[i]),
                                     NormalizeRecord(tasks[i].res.val))
            /\ UNCHANGED <<pc, records>>
       ELSE /\ records' = Append(records, tasks[i].res.val)
            /\ UNCHANGED <<pc, outFiles>>
    /\ UNCHANGED <<runArgs, serVars, parseVars, files, outDirCreated,
                   aggWrites, aggContent, logFiles, printed>>

\* the with block is left by the exception: the pool is shut down waiting
\* for every submitted task, then main ends with the exception
Unwound ==
    /\ pc = "unwind"
    /\ \A i \in DOMAIN tasks : tasks[i].st \in {"done", "taken"}
    /\ pc' = "aborted"
    /\ UNCHANGED <<runArgs, serVars, parseVars, files, tasks, records,
                   outDirCreated, outFiles, aggWrites, aggContent, logFiles,
                   printed>>

\* every future was taken: the aggregate is normalized and written, the
\* count printed; then the completion is logged and notified
Finish ==
    /\ pc = "collect"
    /\ \A i \in DOMAIN tasks : tasks[i].st = "taken"
    /\ IF separate
       THEN UNCHANGED <<aggWrites, aggContent, printed>>
       ELSE /\ aggContent' = PyList(normalize_records(records))
            /\ aggWrites' = Append(aggWrites,
                                [by |-> "main",
                                 path |-> determine_output_path(outputArg).path,
                                 running |-> Count("running"),
                                 untaken |-> Len(files) - Count("taken")])
            /\ printed' = Append(printed, "Wrote")
    /\ pc' = "done"
    /\ UNCHANGED <<runArgs, serVars, parseVars, files, tasks, records,
                   outDirCreated, outFiles, logFiles>>

RunNext ==
    \/ SetupLogging
    \/ Discover
    \/ Dispatch
    \/ \E i \in DOMAIN tasks : WorkerStart(i)
    \/ \E i \in DOMAIN tasks : \E lib \in RunOutcomes(files[i]) : WorkerFinish(i, lib)
    \/ \E i \in DOMAIN tasks : Collect(i)
    \/ Unwound
    \/ Finish

Init == RunInit /\ SerIdle /\ ParseIdle
InitParse == ParseInit /\ SerIdle /\ RunIdle
InitSer == SerInit /\ ParseIdle /\ RunIdle

Spec == Init /\ [][RunNext]_vars
SpecParse == InitParse /\ [][ParseNext]_vars
SpecSer == InitSer /\ [][SerNext]_vars

(***************************************************************************)
(* Properties of a run                                                    *)
(***************************************************************************)
BaseNames == {PathName(files[i]) : i \in DOMAIN files}
FileOf(rec) == Get(rec, "file").v
NothingWritten == ~outDirCreated /\ DOMAIN outFiles = {} /\ aggWrites = <<>>

\* C1: in aggregate mode the written array holds exactly N records, each
\* `file` is the base name of a matched path, no two records share a
\* `file`, and the `file` values are the matched base names.
C1_AggregateRecords ==
    (~separate /\ aggWrites # <<>>) =>
        LET arr == aggContent.v IN
        /\ Len(arr) = Len(files)
        /\ \A i \in DOMAIN arr : FileOf(arr[i]) \in BaseNames
        /\ \A i, j \in DOMAIN arr : i # j => FileOf(arr[i]) # FileOf(arr[j])
        /\ {FileOf(arr[i]) : i \in DOMAIN arr} = BaseNames

\* C3: whatever the library does on a file, parse_single_log returns a
\* record and no exception leaves it, so main takes one record per
\* submitted file and the run reaches its write step.
C3_NoExceptionEscapes ==
    /\ \A i \in DOMAIN tasks :
          tasks[i].st \in {"done", "taken"} => tasks[i].res.kind = "record"
    /\ pc \notin {"unwind", "aborted"}

\* C4: nothing is written and no output directory is made before
\* discover_files has returned a non-empty list; a missing input directory
\* or one that is no directory fails the run, and no match ends it with
\* the message "No files matched".
C4_NoOutputBeforeDiscovery ==
    /\ ~NothingWritten => (files # <<>> /\ pc \notin {"start", "discover", "dispatch"})
    /\ (dirKind # "dir" /\ pc \notin {"start", "discover"}) => pc = "failed"
    /\ pc = "failed" => (dirKind # "dir" /\ NothingWritten)
    /\ (pc = "done" /\ files = <<>>) =>
          (printed = <<"No files matched">> /\ NothingWritten)

\* files lie in the input directory, none matches, and the run has ended
\* with the message alone
C4_Witness ==
    /\ pc = "done"
    /\ tree # {}
    /\ files = <<>>
    /\ separate
    /\ printed = <<"No files matched">>
    /\ NothingWritten

\* C5: a --separate run over N >= 1 matched files leaves exactly N output
\* files, one per matched file, named <stem>.cclib.json, each a single
\* record object.
C5_SeparateFiles ==
    (separate /\ pc = "done" /\ files # <<>>) =>
        /\ DOMAIN outFiles = {OutputName(files[i]) : i \in DOMAIN files}
        /\ Cardinality(DOMAIN outFiles) = Len(files)
        /\ \A n \in DOMAIN outFiles : outFiles[n].t = "dict"

\* C9: in aggregate mode the destination is written exactly once, by main,
\* after every submitted task has completed and its result was taken.
C9_WrittenOnceAfterAll ==
    /\ Len(aggWrites) <= 1
    /\ \A k \in DOMAIN aggWrites :
          /\ aggWrites[k].by = "main"
          /\ aggWrites[k].running = 0
          /\ aggWrites[k].untaken = 0
    /\ (~separate /\ files # <<>> /\ pc \in {"done", "aborted"}) => Len(aggWrites) = 1

\* C10: in --separate mode the `file` field inside <stem>.cclib.json is the
\* base name of a matched file whose stem is <stem>.
C10_NamedAfterSubmittedPath ==
    \A n \in DOMAIN outFiles :
        \E i \in DOMAIN files :
            /\ n = OutputName(files[i])
            /\ FileOf(outFiles[n]) = PathName(files[i])

\* the second file's record was written while the first file's task is
\* still running
C10_Witness ==
    /\ separate
    /\ Len(files) >= 2
    /\ tasks # <<>>
    /\ tasks[1].st = "running"
    /\ tasks[2].st = "taken"
    /\ DOMAIN outFiles = {OutputName(files[2])}
    /\ FileOf(outFiles[OutputName(files[2])]) = PathName(files[2])

====
